---- MODULE Spec2Model ----
(***************************************************************************)
(* A model of ZendeskFormMigrator (form_migratorv4.py): one migrate_form   *)
(* run against a source and a target account, and the pure helpers it is   *)
(* built from (build_field_mapping, create_ticket_field's payload,         *)
(* transform_conditions).                                                  *)
(*                                                                         *)
(* Encoding of Python values.  A dict is a function whose DOMAIN is the    *)
(* set of its keys.  A string is the sequence of its ':'-separated         *)
(* segments ('lookup' is <<"lookup">>, 'zen:custom_object:asset' is        *)
(* <<"zen", "custom_object", "asset">>), which is what str.split(':')      *)
(* returns and never the empty sequence; None is the empty sequence.       *)
(* Other scalar attribute values (0, True, []) are opaque one-segment      *)
(* tokens: the program only stores and forwards them.  Field identifiers   *)
(* are integers.                                                           *)
(***************************************************************************)
EXTENDS Integers, Sequences, FiniteSets, TLC

VARIABLES
    srcFields,        \* source account: GET /ticket_fields, in the order returned
    srcObjects,       \* source account: keys of its custom object types
    srcForm,          \* source account: the ticket form that is migrated
    tgtFields,        \* target account: its ticket fields, in the order returned
    tgtObjects,       \* target account: keys of its custom object types
    posts,            \* history of the POST requests sent to the target account
    pc,               \* position of migrate_form
    source_form,      \* migrate_form's local source_form
    field_id_mapping, \* self.field_id_mapping
    missing_fields,   \* migrate_missing_fields' local list
    cursor,           \* index of migrate_missing_fields' second loop
    new_form,         \* migrate_form's local new_form
    stages,           \* the stages of migrate_form entered so far, in order
    attempts,         \* the calls of create_ticket_field made so far, with outcome
    warnings,         \* warning and error records logged by the run
    result,           \* what migrate_form returned
    tcConditions,     \* transform_conditions alone: its argument
    tcMapping,        \* transform_conditions alone: self.field_id_mapping
    tcOut,            \* transform_conditions alone: its result
    tcAgain,          \* the result transformed once more under the identity mapping
    tcPc,
    cfField,          \* create_ticket_field's payload alone: the source field
    cfPayload,        \* create_ticket_field's payload alone: clean_field_data
    cfPc

runVars == <<srcFields, srcObjects, srcForm, tgtFields, tgtObjects, posts, pc,
             source_form, field_id_mapping, missing_fields, cursor, new_form,
             stages, attempts, warnings, result>>
tcVars == <<tcConditions, tcMapping, tcOut, tcAgain, tcPc>>
cfVars == <<cfField, cfPayload, cfPc>>
vars == <<runVars, tcVars, cfVars>>

----------------------------------------------------------------------------
(* Bounds of the model *)

\* number of ticket fields of the source account when the mapper is explored alone
NumSrc == 2
\* largest number of ticket fields the target account holds before the run
MaxTgt == 2
\* largest length of the form's ticket_field_ids
MaxFormLen == 2
\* largest length of a condition list given to transform_conditions
MaxConds == 2
\* largest length of a condition's child_fields
MaxChildren == 1
\* largest number of optional attributes a source field carries
MaxAttrs == 2

----------------------------------------------------------------------------
(* Python values *)

None == <<>>

Str(s) == <<s>>

Has(d, k) == k \in DOMAIN d

Get(d, k, default) == IF k \in DOMAIN d THEN d[k] ELSE default

Put(d, k, v) == [x \in DOMAIN d \cup {k} |-> IF x = k THEN v ELSE d[x]]

Dict(keys, d) == [k \in keys |-> d[k]]

SeqsUpTo(S, n) == UNION {[1..k -> S] : k \in 0..n}

----------------------------------------------------------------------------
(* build_field_mapping *)

BuiltinTypes ==
    {Str(t) : t \in {"subject", "description", "status", "priority", "type",
                     "assignee", "group", "requester", "collaborator"}}

\* the first field of a title is kept
TargetFieldsByTitleFirst(target_fields) ==
    [t \in {target_fields[i]["title"] : i \in DOMAIN target_fields} |->
        target_fields[CHOOSE i \in DOMAIN target_fields :
                         /\ target_fields[i]["title"] = t
                         /\ \A j \in DOMAIN target_fields :
                                target_fields[j]["title"] = t => i <= j]]

\* {field['title']: field for field in target_fields}: a later field of the
\* same title replaces an earlier one
TargetFieldsByTitle(target_fields) ==
    [t \in {target_fields[i]["title"] : i \in DOMAIN target_fields} |->
        target_fields[CHOOSE i \in DOMAIN target_fields :
                         /\ target_fields[i]["title"] = t
                         /\ \A j \in DOMAIN target_fields :
                                target_fields[j]["title"] = t => j <= i]]

\* the built-in kinds are matched by title like the others
MapSourceFieldNoBuiltin(mapping, source_field, by_title) ==
    IF source_field["title"] \in DOMAIN by_title
        THEN Put(mapping, source_field["id"], by_title[source_field["title"]]["id"])
        ELSE mapping

\* a field without counterpart is mapped to its own id
MapSourceFieldSelfOnMiss(mapping, source_field, by_title) ==
    IF source_field["type"] \in BuiltinTypes
        THEN Put(mapping, source_field["id"], source_field["id"])
        ELSE IF source_field["title"] \in DOMAIN by_title
                THEN Put(mapping, source_field["id"],
                         by_title[source_field["title"]]["id"])
                ELSE Put(mapping, source_field["id"], source_field["id"])

\* one iteration of the loop over source_fields
MapSourceField(mapping, source_field, by_title) ==
    IF source_field["type"] \in BuiltinTypes
        THEN Put(mapping, source_field["id"], source_field["id"])
        ELSE IF source_field["title"] \in DOMAIN by_title
                THEN Put(mapping, source_field["id"],
                         by_title[source_field["title"]]["id"])
                ELSE mapping

RECURSIVE MapSourceFields(_, _, _)
MapSourceFields(mapping, source_fields, by_title) ==
    IF source_fields = <<>>
        THEN mapping
        ELSE MapSourceFields(MapSourceField(mapping, Head(source_fields), by_title),
                             Tail(source_fields), by_title)

BuildFieldMappingResult(mapping, source_fields, target_fields) ==
    MapSourceFields(mapping, source_fields, TargetFieldsByTitle(target_fields))

----------------------------------------------------------------------------
(* get_custom_object, create_custom_object, ensure_custom_object_exists *)

\* get_custom_object: the object of that key, or None when there is none or
\* when the GET request failed (the exception is caught and logged)
GetCustomObject(key, objects, get_ok) ==
    IF get_ok /\ key \in objects THEN [key |-> key] ELSE None

\* create_custom_object: the POST request it sends; the target account
\* refuses a key it already holds
CustomObjectPost(source_object, objects, post_ok) ==
    [resource |-> "custom_objects",
     payload  |-> [key |-> source_object["key"]],
     ok       |-> post_ok /\ source_object["key"] \notin objects]

\* ensure_custom_object_exists: the POST requests it sends, in order.  It
\* returns without a request when the target already holds the object and
\* when the source does not hold it; a failed creation is logged only.
EnsureCustomObjectPosts(key, target_objects, source_objects, env) ==
    IF GetCustomObject(key, target_objects, env.target_get_ok) # None
        THEN <<>>
        ELSE IF GetCustomObject(key, source_objects, env.source_get_ok) = None
                THEN <<>>
                ELSE <<CustomObjectPost(
                         GetCustomObject(key, source_objects, env.source_get_ok),
                         target_objects, env.object_post_ok)>>

\* the custom object keys of the target account after these requests
ObjectsAfter(objects, requests) ==
    objects \cup {requests[i].payload["key"] :
                    i \in {j \in DOMAIN requests :
                             requests[j].resource = "custom_objects" /\ requests[j].ok}}

----------------------------------------------------------------------------
(* create_ticket_field *)

CustomObjectPrefix == <<"zen", "custom_object">>

\* target_type.startswith('zen:custom_object:')
StartsWithCustomObject(target_type) ==
    /\ Len(target_type) >= 3
    /\ SubSeq(target_type, 1, 2) = CustomObjectPrefix

\* target_type.split(':')[-1]
CustomObjectKey(target_type) == Str(target_type[Len(target_type)])

IsLookupWithTarget(field_data) ==
    /\ field_data["type"] = Str("lookup")
    /\ Has(field_data, "relationship_target_type")

\* None.startswith raises outside the try block of create_ticket_field
LookupRaises(field_data) ==
    /\ IsLookupWithTarget(field_data)
    /\ field_data["relationship_target_type"] = None

DependsOnCustomObject(field_data) ==
    /\ IsLookupWithTarget(field_data)
    /\ StartsWithCustomObject(field_data["relationship_target_type"])

RequiredFieldKeys == {"type", "title"}

\* the .get defaults of clean_field_data; a key without default yields None
FieldDefaults ==
    [description            |-> Str(""),
     position               |-> Str("0"),
     active                 |-> Str("True"),
     required               |-> Str("False"),
     collapsed_for_agents   |-> Str("False"),
     regexp_for_validation  |-> None,
     title_in_portal        |-> None,
     visible_in_portal      |-> Str("True"),
     editable_in_portal     |-> Str("True"),
     required_in_portal     |-> Str("False"),
     tag                    |-> None,
     custom_field_options   |-> Str("[]"),
     sub_type_id            |-> None,
     removable              |-> Str("True"),
     relationship_target_type |-> None]

OptionalFieldKeys == DOMAIN FieldDefaults

\* clean_field_data as first built
RawFieldData(field_data) ==
    [k \in RequiredFieldKeys \cup OptionalFieldKeys |->
        IF k \in RequiredFieldKeys
            THEN field_data[k]
            ELSE Get(field_data, k, FieldDefaults[k])]

\* the None values are kept
KeepNoneValues(d) == d

\* {k: v for k, v in d.items() if v is not None}
RemoveNone(d) == Dict({k \in DOMAIN d : d[k] # None}, d)

CleanFieldData(field_data) == RemoveNone(RawFieldData(field_data))

\* the ids the target account gives: 101, 102, ... in the order of creation
NewFieldId(target_fields) == 100 + Len(target_fields) + 1

----------------------------------------------------------------------------
(* migrate_missing_fields: the first loop *)

\* {field['id']: field for field in source_fields}
SourceFieldsDict(source_fields) ==
    [id \in {source_fields[i]["id"] : i \in DOMAIN source_fields} |->
        source_fields[CHOOSE i \in DOMAIN source_fields :
                         /\ source_fields[i]["id"] = id
                         /\ \A j \in DOMAIN source_fields :
                                source_fields[j]["id"] = id => j <= i]]

RECURSIVE MissingFields(_, _, _)
MissingFields(ticket_field_ids, mapping, by_id) ==
    IF ticket_field_ids = <<>>
        THEN <<>>
        ELSE LET field_id == Head(ticket_field_ids)
                 rest == MissingFields(Tail(ticket_field_ids), mapping, by_id)
             IN  IF field_id \notin DOMAIN mapping /\ field_id \in DOMAIN by_id
                     THEN <<by_id[field_id]>> \o rest
                     ELSE rest

----------------------------------------------------------------------------
(* transform_conditions *)

BasicKeys == {"parent_field_id", "parent_field_type", "value", "operator"}

KnownKeys == BasicKeys \cup {"child_fields"}

\* a child reference whose id has no mapping entry loses its id
TransformChildDropUnmapped(child_field, mapping) ==
    IF Has(child_field, "id")
        THEN IF child_field["id"] \in DOMAIN mapping
                THEN Put(child_field, "id", mapping[child_field["id"]])
                ELSE Dict(DOMAIN child_field \ {"id"}, child_field)
        ELSE child_field

TransformChild(child_field, mapping) ==
    IF Has(child_field, "id") /\ child_field["id"] \in DOMAIN mapping
        THEN Put(child_field, "id", mapping[child_field["id"]])
        ELSE child_field

\* the new child list starts from the old one instead of empty
TransformConditionStaleChildren(condition, mapping) ==
    LET basic == Dict(DOMAIN condition \cap BasicKeys, condition)
        with_parent ==
            IF Has(condition, "parent_field_id")
                THEN Put(basic, "parent_field_id",
                         IF condition["parent_field_id"] \in DOMAIN mapping
                             THEN mapping[condition["parent_field_id"]]
                             ELSE condition["parent_field_id"])
                ELSE basic
        with_children ==
            IF Has(condition, "child_fields") /\ condition["child_fields"] # <<>>
                THEN Put(with_parent, "child_fields",
                         condition["child_fields"] \o
                         [i \in DOMAIN condition["child_fields"] |->
                             TransformChild(condition["child_fields"][i], mapping)])
                ELSE with_parent
        others == DOMAIN condition \ KnownKeys
    IN  [k \in DOMAIN with_children \cup others |->
            IF k \in others THEN condition[k] ELSE with_children[k]]

\* the attributes outside the known set are not copied
TransformConditionKnownOnly(condition, mapping) ==
    LET basic == Dict(DOMAIN condition \cap BasicKeys, condition)
        with_parent ==
            IF Has(condition, "parent_field_id")
                THEN Put(basic, "parent_field_id",
                         IF condition["parent_field_id"] \in DOMAIN mapping
                             THEN mapping[condition["parent_field_id"]]
                             ELSE condition["parent_field_id"])
                ELSE basic
        with_children ==
            IF Has(condition, "child_fields") /\ condition["child_fields"] # <<>>
                THEN Put(with_parent, "child_fields",
                         [i \in DOMAIN condition["child_fields"] |->
                             TransformChild(condition["child_fields"][i], mapping)])
                ELSE with_parent
        others == {}
    IN  [k \in DOMAIN with_children \cup others |->
            IF k \in others THEN condition[k] ELSE with_children[k]]

TransformCondition(condition, mapping) ==
    LET basic == Dict(DOMAIN condition \cap BasicKeys, condition)
        with_parent ==
            IF Has(condition, "parent_field_id")
                THEN Put(basic, "parent_field_id",
                         IF condition["parent_field_id"] \in DOMAIN mapping
                             THEN mapping[condition["parent_field_id"]]
                             ELSE condition["parent_field_id"])
                ELSE basic
        with_children ==
            IF Has(condition, "child_fields") /\ condition["child_fields"] # <<>>
                THEN Put(with_parent, "child_fields",
                         [i \in DOMAIN condition["child_fields"] |->
                             TransformChild(condition["child_fields"][i], mapping)])
                ELSE with_parent
        others == DOMAIN condition \ KnownKeys
    IN  [k \in DOMAIN with_children \cup others |->
            IF k \in others THEN condition[k] ELSE with_children[k]]

\* `not conditions` holds of None and of the empty list
TransformConditions(conditions, mapping) ==
    IF conditions = <<>>
        THEN <<>>
        ELSE [i \in DOMAIN conditions |-> TransformCondition(conditions[i], mapping)]

\* the warnings transform_conditions logs: the referenced ids without entry
UnmappedReferences(conditions, mapping) ==
    LET parents ==
            {conditions[i]["parent_field_id"] :
                i \in {j \in DOMAIN conditions : Has(conditions[j], "parent_field_id")}}
        children ==
            UNION {{conditions[i]["child_fields"][n]["id"] :
                      n \in {m \in DOMAIN conditions[i]["child_fields"] :
                               Has(conditions[i]["child_fields"][m], "id")}} :
                   i \in {j \in DOMAIN conditions : Has(conditions[j], "child_fields")}}
    IN  (parents \cup children) \ DOMAIN mapping

----------------------------------------------------------------------------
(* create_ticket_form *)

\* the translated ids in the reverse of the source order
RECURSIVE NewFieldIdsReversed(_, _)
NewFieldIdsReversed(ticket_field_ids, mapping) ==
    IF ticket_field_ids = <<>>
        THEN <<>>
        ELSE LET rest == NewFieldIdsReversed(Tail(ticket_field_ids), mapping)
             IN  IF Head(ticket_field_ids) \in DOMAIN mapping
                     THEN rest \o <<mapping[Head(ticket_field_ids)]>>
                     ELSE rest

\* new_field_ids of the first loop
RECURSIVE NewFieldIds(_, _)
NewFieldIds(ticket_field_ids, mapping) ==
    IF ticket_field_ids = <<>>
        THEN <<>>
        ELSE LET rest == NewFieldIds(Tail(ticket_field_ids), mapping)
             IN  IF Head(ticket_field_ids) \in DOMAIN mapping
                     THEN <<mapping[Head(ticket_field_ids)]>> \o rest
                     ELSE rest

\* missing_fields of the first loop
RECURSIVE MissingFieldIds(_, _)
MissingFieldIds(ticket_field_ids, mapping) ==
    IF ticket_field_ids = <<>>
        THEN <<>>
        ELSE LET rest == MissingFieldIds(Tail(ticket_field_ids), mapping)
             IN  IF Head(ticket_field_ids) \in DOMAIN mapping
                     THEN rest
                     ELSE <<Head(ticket_field_ids)>> \o rest

\* the scalar attributes of new_form_data with their .get defaults
FormScalars(form_data) ==
    [name             |-> form_data["name"],
     display_name     |-> Get(form_data, "display_name", form_data["name"]),
     position         |-> Get(form_data, "position", Str("0")),
     active           |-> Get(form_data, "active", Str("True")),
     end_user_visible |-> Get(form_data, "end_user_visible", Str("True")),
     default          |-> Get(form_data, "default", Str("False")),
     in_all_brands    |-> Get(form_data, "in_all_brands", Str("True"))]

\* new_form_data: ticket_field_ids is a list and never None; a condition list
\* is added only when it is not empty
NewFormData(form_data, mapping) ==
    LET scalars == RemoveNone(FormScalars(form_data))
        end_user == TransformConditions(Get(form_data, "end_user_conditions", <<>>),
                                        mapping)
        agent == TransformConditions(Get(form_data, "agent_conditions", <<>>), mapping)
        with_ids == Put(scalars, "ticket_field_ids",
                        NewFieldIds(Get(form_data, "ticket_field_ids", <<>>), mapping))
        with_end_user == IF end_user # <<>>
                             THEN Put(with_ids, "end_user_conditions", end_user)
                             ELSE with_ids
    IN  IF agent # <<>>
            THEN Put(with_end_user, "agent_conditions", agent)
            ELSE with_end_user

\* len(form.get(key, []))
ConditionCount(form, key) == Len(Get(form, key, <<>>))

----------------------------------------------------------------------------
(* The accounts and forms a run is explored on *)

Titles == {Str("a"), Str("b")}

\* the source account of a run: a custom field, a built-in field of the same
\* title, and a lookup field on a custom object that carries a null attribute
SourceCatalog ==
    <<[id |-> 1, type |-> Str("text"), title |-> Str("a")],
      [id |-> 2, type |-> Str("subject"), title |-> Str("a")],
      [id |-> 3, type |-> Str("lookup"), title |-> Str("b"), tag |-> None,
       relationship_target_type |-> <<"zen", "custom_object", "asset">>]>>

\* the ids a form may list: those of the source account and one it does not define
FormIds == {SourceCatalog[i]["id"] : i \in DOMAIN SourceCatalog} \cup {4}

ObjectKeys == {Str("asset")}

TargetAccounts ==
    {[i \in DOMAIN ts |-> [id |-> 100 + i, type |-> Str("text"), title |-> ts[i]]] :
        ts \in SeqsUpTo(Titles, MaxTgt)}

EndUserCondition ==
    [parent_field_id |-> 3, parent_field_type |-> Str("lookup"), value |-> Str("x"),
     operator |-> Str("is"),
     child_fields |-> <<[id |-> 4, is_required |-> Str("False")]>>]

AgentCondition ==
    [parent_field_id |-> 1, value |-> Str("y"), child_fields |-> <<[id |-> 2]>>]

FormConditions ==
    {<<>>,
     [end_user_conditions |-> <<EndUserCondition>>,
      agent_conditions |-> <<AgentCondition>>]}

SourceForms ==
    {[k \in {"name"} \cup DOMAIN ids \cup DOMAIN conds |->
        IF k = "name" THEN Str("form")
        ELSE IF k \in DOMAIN ids THEN ids[k] ELSE conds[k]] :
     ids \in {<<>>} \cup {[ticket_field_ids |-> l] : l \in SeqsUpTo(FormIds, MaxFormLen)},
     conds \in FormConditions}

\* the outcomes of the requests one create_ticket_field call makes
Outcomes ==
    [target_get_ok : BOOLEAN, source_get_ok : BOOLEAN,
     object_post_ok : BOOLEAN, field_post_ok : BOOLEAN]

InitRun ==
    /\ srcFields = SourceCatalog
    /\ srcObjects \in SUBSET ObjectKeys
    /\ tgtObjects \in SUBSET ObjectKeys
    /\ tgtFields \in TargetAccounts
    /\ srcForm \in SourceForms
    /\ posts = <<>>
    /\ pc = "start"
    /\ source_form = None
    /\ field_id_mapping = <<>>
    /\ missing_fields = <<>>
    /\ cursor = 0
    /\ new_form = None
    /\ stages = <<>>
    /\ attempts = <<>>
    /\ warnings = {}
    /\ result = None

IdleRun ==
    /\ srcFields = <<>>
    /\ srcObjects = {}
    /\ tgtObjects = {}
    /\ tgtFields = <<>>
    /\ srcForm = None
    /\ posts = <<>>
    /\ pc = "idle"
    /\ source_form = None
    /\ field_id_mapping = <<>>
    /\ missing_fields = <<>>
    /\ cursor = 0
    /\ new_form = None
    /\ stages = <<>>
    /\ attempts = <<>>
    /\ warnings = {}
    /\ result = None

IdleConditions ==
    /\ tcConditions = <<>>
    /\ tcMapping = <<>>
    /\ tcOut = <<>>
    /\ tcAgain = <<>>
    /\ tcPc = "idle"

IdlePayload ==
    /\ cfField = None
    /\ cfPayload = None
    /\ cfPc = "idle"

----------------------------------------------------------------------------
(* migrate_form *)

\* the result carries an empty mapping
ReturnErrorNoMapping(error) ==
    /\ result' = [status |-> "error", error |-> error, field_mappings |-> <<>>]
    /\ pc' = "done"

\* the except branch of migrate_form
ReturnError(error) ==
    /\ result' = [status |-> "error", error |-> error,
                  field_mappings |-> field_id_mapping]
    /\ pc' = "done"

\* 1. get_ticket_form(form_id, from_source=True)
GetTicketForm ==
    /\ pc = "start"
    /\ stages' = Append(stages, "get_ticket_form")
    /\ source_form' = srcForm
    /\ pc' = "form_read"
    /\ UNCHANGED <<srcFields, srcObjects, srcForm, tgtFields, tgtObjects, posts,
                   field_id_mapping, missing_fields, cursor, new_form, attempts,
                   warnings, result>>
    /\ UNCHANGED <<tcVars, cfVars>>

GetTicketFormFails ==
    /\ pc = "start"
    /\ stages' = Append(stages, "get_ticket_form")
    /\ ReturnError("GET source ticket_forms")
    /\ UNCHANGED <<srcFields, srcObjects, srcForm, tgtFields, tgtObjects, posts,
                   source_form, field_id_mapping, missing_fields, cursor, new_form,
                   attempts, warnings>>
    /\ UNCHANGED <<tcVars, cfVars>>

\* 2. build_field_mapping()
BuildFieldMapping ==
    /\ pc = "form_read"
    /\ stages' = Append(stages, "build_field_mapping")
    /\ field_id_mapping' = BuildFieldMappingResult(field_id_mapping, srcFields, tgtFields)
    /\ pc' = "mapping_built"
    /\ UNCHANGED <<srcFields, srcObjects, srcForm, tgtFields, tgtObjects, posts,
                   source_form, missing_fields, cursor, new_form, attempts,
                   warnings, result>>
    /\ UNCHANGED <<tcVars, cfVars>>

\* one of its two get_ticket_fields calls raises, before the mapping is touched
BuildFieldMappingFails ==
    /\ pc = "form_read"
    /\ stages' = Append(stages, "build_field_mapping")
    /\ \E account \in {"source", "target"} :
           ReturnError("GET " \o account \o " ticket_fields")
    /\ UNCHANGED <<srcFields, srcObjects, srcForm, tgtFields, tgtObjects, posts,
                   source_form, field_id_mapping, missing_fields, cursor, new_form,
                   attempts, warnings>>
    /\ UNCHANGED <<tcVars, cfVars>>

\* 3. migrate_missing_fields(source_form): get_ticket_fields and the first loop
MigrateMissingFields ==
    /\ pc = "mapping_built"
    /\ stages' = Append(stages, "migrate_missing_fields")
    /\ missing_fields' = MissingFields(Get(source_form, "ticket_field_ids", <<>>),
                                       field_id_mapping, SourceFieldsDict(srcFields))
    /\ cursor' = 1
    /\ pc' = IF missing_fields' = <<>> THEN "fields_migrated" ELSE "creating"
    /\ UNCHANGED <<srcFields, srcObjects, srcForm, tgtFields, tgtObjects, posts,
                   source_form, field_id_mapping, new_form, attempts, warnings,
                   result>>
    /\ UNCHANGED <<tcVars, cfVars>>

MigrateMissingFieldsFails ==
    /\ pc = "mapping_built"
    /\ stages' = Append(stages, "migrate_missing_fields")
    /\ ReturnError("GET source ticket_fields")
    /\ UNCHANGED <<srcFields, srcObjects, srcForm, tgtFields, tgtObjects, posts,
                   source_form, field_id_mapping, missing_fields, cursor, new_form,
                   attempts, warnings>>
    /\ UNCHANGED <<tcVars, cfVars>>

\* the requests one create_ticket_field(field_data) call sends to the target
\* account, in order; each records the custom objects the target holds when
\* it is sent.  Nothing is sent when the lookup target is None.
CreateTicketFieldPosts(field_data, target_objects, source_objects, env) ==
    IF LookupRaises(field_data)
        THEN <<>>
        ELSE LET object_posts ==
                     IF DependsOnCustomObject(field_data)
                         THEN EnsureCustomObjectPosts(
                                  CustomObjectKey(field_data["relationship_target_type"]),
                                  target_objects, source_objects, env)
                         ELSE <<>>
             IN  object_posts \o
                 <<[resource |-> "ticket_fields",
                    payload  |-> CleanFieldData(field_data),
                    ok       |-> env.field_post_ok,
                    objects  |-> ObjectsAfter(target_objects, object_posts)]>>

\* whether create_ticket_field returned the created field
FieldCreated(requests) ==
    /\ requests # <<>>
    /\ requests[Len(requests)].ok

\* a failed creation ends the loop
AfterFieldAbort(index, fields, created) ==
    IF index = Len(fields) \/ ~created THEN "fields_migrated" ELSE "creating"

\* the loop goes on to the next missing field, whether the creation succeeded
\* or was caught and logged, and ends after the last one
AfterField(index, fields, created) ==
    IF index = Len(fields) THEN "fields_migrated" ELSE "creating"

\* the entry replaces the whole mapping
RecordCreatedFieldAlone(mapping, source_id, new_id) ==
    [x \in {source_id} |-> new_id]

\* self.field_id_mapping[field['id']] = new_field['id']
RecordCreatedField(mapping, source_id, new_id) ==
    Put(mapping, source_id, new_id)

\* the second loop of migrate_missing_fields: one iteration, the call of
\* create_ticket_field included
CreateMissingField(env) ==
    /\ pc = "creating"
    /\ LET field == missing_fields[cursor]
           requests == CreateTicketFieldPosts(field, tgtObjects, srcObjects, env)
           new_id == NewFieldId(tgtFields)
       IN  /\ posts' = posts \o requests
           /\ tgtObjects' = ObjectsAfter(tgtObjects, requests)
           /\ IF FieldCreated(requests)
                  THEN /\ tgtFields' =
                              Append(tgtFields,
                                     Put(requests[Len(requests)].payload, "id", new_id))
                       /\ field_id_mapping' =
                              RecordCreatedField(field_id_mapping, field["id"], new_id)
                       /\ attempts' = Append(attempts, [source_id |-> field["id"],
                                                        ok |-> TRUE, new_id |-> new_id])
                       /\ UNCHANGED warnings
                  ELSE /\ attempts' = Append(attempts, [source_id |-> field["id"],
                                                        ok |-> FALSE, new_id |-> 0])
                       /\ warnings' = warnings \cup
                              {[kind |-> "field_not_created", ids |-> <<field["id"]>>]}
                       /\ UNCHANGED <<tgtFields, field_id_mapping>>
    /\ cursor' = cursor + 1
    /\ pc' = AfterField(cursor, missing_fields, attempts'[Len(attempts')].ok)
    /\ UNCHANGED <<srcFields, srcObjects, srcForm, source_form, missing_fields,
                   new_form, stages, result>>
    /\ UNCHANGED <<tcVars, cfVars>>

\* what create_ticket_form logs before the request
FormWarnings(form_data, mapping) ==
    LET missing == MissingFieldIds(Get(form_data, "ticket_field_ids", <<>>), mapping)
        unmapped ==
            UnmappedReferences(Get(form_data, "end_user_conditions", <<>>), mapping)
            \cup UnmappedReferences(Get(form_data, "agent_conditions", <<>>), mapping)
    IN  (IF missing # <<>> THEN {[kind |-> "missing_fields", ids |-> missing]} ELSE {})
        \cup {[kind |-> "unmapped_reference", ids |-> <<id>>] : id \in unmapped}

FormPost(form_data, mapping, post_ok) ==
    [resource |-> "ticket_forms",
     payload  |-> NewFormData(form_data, mapping),
     ok       |-> post_ok]

\* the condition lists a created form may report back for one scope: none, or
\* any prefix of the list that was sent
ReportedConditions(payload, key) ==
    {<<>>} \cup {[k \in {key} |-> SubSeq(Get(payload, key, <<>>), 1, n)] :
                    n \in 0..Len(Get(payload, key, <<>>))}

\* response['ticket_form'] of a successful request
ReportedForms(payload) ==
    {[k \in {"id", "name"} \cup DOMAIN e \cup DOMAIN a |->
        IF k = "id" THEN 900
        ELSE IF k = "name" THEN payload["name"]
        ELSE IF k \in DOMAIN e THEN e[k] ELSE a[k]] :
     e \in ReportedConditions(payload, "end_user_conditions"),
     a \in ReportedConditions(payload, "agent_conditions")}

\* 4. create_ticket_form(source_form): the request succeeds
CreateTicketForm ==
    /\ pc = "fields_migrated"
    /\ stages' = Append(stages, "create_ticket_form")
    /\ warnings' = warnings \cup FormWarnings(source_form, field_id_mapping)
    /\ posts' = Append(posts, FormPost(source_form, field_id_mapping, TRUE))
    /\ new_form' \in ReportedForms(NewFormData(source_form, field_id_mapping))
    /\ pc' = "form_created"
    /\ UNCHANGED <<srcFields, srcObjects, srcForm, tgtFields, tgtObjects, source_form,
                   field_id_mapping, missing_fields, cursor, attempts, result>>
    /\ UNCHANGED <<tcVars, cfVars>>

\* the request fails: create_ticket_form logs the payload and raises again
CreateTicketFormFails ==
    /\ pc = "fields_migrated"
    /\ stages' = Append(stages, "create_ticket_form")
    /\ warnings' = warnings \cup FormWarnings(source_form, field_id_mapping)
    /\ posts' = Append(posts, FormPost(source_form, field_id_mapping, FALSE))
    /\ ReturnError("POST target ticket_forms")
    /\ UNCHANGED <<srcFields, srcObjects, srcForm, tgtFields, tgtObjects, source_form,
                   field_id_mapping, missing_fields, cursor, new_form, attempts>>
    /\ UNCHANGED <<tcVars, cfVars>>

\* the condition counts of the success result
ConditionCounts(form) ==
    [end_user |-> ConditionCount(form, "end_user_conditions"),
     agent    |-> ConditionCount(form, "agent_conditions"),
     total    |-> ConditionCount(form, "end_user_conditions")
                      + ConditionCount(form, "agent_conditions")]

SuccessResult(form, created, mapping) ==
    [status |-> "success",
     source_form |-> form,
     migrated_form |-> created,
     field_mappings |-> mapping,
     conditions_migrated |-> ConditionCounts(created),
     conditions_original |-> ConditionCounts(form)]

\* a discrepancy of the condition counts fails the run
VerifiedResultStrict(form, created, mapping) ==
    IF ConditionCounts(created).total # ConditionCounts(form).total
        THEN [status |-> "error", error |-> "condition count",
              field_mappings |-> mapping]
        ELSE SuccessResult(form, created, mapping)

VerifiedResult(form, created, mapping) == SuccessResult(form, created, mapping)

\* the warning of the comparison of the totals
DiscrepancyWarnings(form, created) ==
    IF ConditionCounts(created).total # ConditionCounts(form).total
        THEN {[kind |-> "discrepancy",
               ids |-> <<ConditionCounts(form).total, ConditionCounts(created).total>>]}
        ELSE {}

\* the verification of the condition counts and the success result
VerifyConditions ==
    /\ pc = "form_created"
    /\ stages' = Append(stages, "verify_conditions")
    /\ warnings' = warnings \cup DiscrepancyWarnings(source_form, new_form)
    /\ result' = VerifiedResult(source_form, new_form, field_id_mapping)
    /\ pc' = "done"
    /\ UNCHANGED <<srcFields, srcObjects, srcForm, tgtFields, tgtObjects, posts,
                   source_form, field_id_mapping, missing_fields, cursor, new_form,
                   attempts>>
    /\ UNCHANGED <<tcVars, cfVars>>

NextRun ==
    \/ GetTicketForm
    \/ GetTicketFormFails
    \/ BuildFieldMapping
    \/ BuildFieldMappingFails
    \/ MigrateMissingFields
    \/ MigrateMissingFieldsFails
    \/ \E env \in Outcomes : CreateMissingField(env)
    \/ CreateTicketForm
    \/ CreateTicketFormFails
    \/ VerifyConditions

Init == InitRun /\ IdleConditions /\ IdlePayload

Next == NextRun

Spec == Init /\ [][Next]_vars

----------------------------------------------------------------------------
(* build_field_mapping alone, on a fresh migrator, over every source account *)
(* of NumSrc fields                                                          *)

FieldShapes ==
    [type : {Str("subject"), Str("collaborator"), Str("text")}, title : Titles]

SourceAccounts ==
    {[i \in DOMAIN shapes |->
        [id |-> i, type |-> shapes[i].type, title |-> shapes[i].title]] :
     shapes \in SeqsUpTo(FieldShapes, NumSrc)}

InitMapping ==
    /\ srcFields \in SourceAccounts
    /\ srcObjects = {}
    /\ tgtObjects = {}
    /\ tgtFields \in TargetAccounts
    /\ srcForm = [name |-> Str("form")]
    /\ posts = <<>>
    /\ pc = "form_read"
    /\ source_form = srcForm
    /\ field_id_mapping = <<>>
    /\ missing_fields = <<>>
    /\ cursor = 0
    /\ new_form = None
    /\ stages = <<"get_ticket_form">>
    /\ attempts = <<>>
    /\ warnings = {}
    /\ result = None
    /\ IdleConditions
    /\ IdlePayload

NextMapping == BuildFieldMapping \/ BuildFieldMappingFails

SpecMapping == InitMapping /\ [][NextMapping]_vars

----------------------------------------------------------------------------
(* transform_conditions alone *)

ChildShapes == {[id |-> 6, is_required |-> Str("True")], [is_required |-> Str("False")]}

ChildLists == {<<>>} \cup {[child_fields |-> l] : l \in SeqsUpTo(ChildShapes, MaxChildren)}

ParentShapes == {<<>>, [parent_field_id |-> 5]}

\* without and with the other known attributes and one the code does not know
AttributeShapes ==
    {<<>>,
     [parent_field_type |-> Str("tagger"), value |-> Str("x"), operator |-> Str("is"),
      note |-> Str("n")]}

ConditionShapes ==
    {[k \in DOMAIN p \cup DOMAIN a \cup DOMAIN c |->
        IF k \in DOMAIN p THEN p[k] ELSE IF k \in DOMAIN a THEN a[k] ELSE c[k]] :
     p \in ParentShapes, a \in AttributeShapes, c \in ChildLists}

Mappings == {<<>>, (6 :> 106), (5 :> 105 @@ 6 :> 106)}

\* the ids a condition list refers to, as parent or as child
ReferencedIds(conditions) == UnmappedReferences(conditions, <<>>)

IdentityMapping(ids) == [id \in ids |-> id]

InitConditions ==
    /\ tcConditions \in SeqsUpTo(ConditionShapes, MaxConds)
    /\ tcMapping \in Mappings
    /\ tcOut = <<>>
    /\ tcAgain = <<>>
    /\ tcPc = "start"
    /\ IdleRun
    /\ IdlePayload

Transform ==
    /\ tcPc = "start"
    /\ tcOut' = TransformConditions(tcConditions, tcMapping)
    /\ tcPc' = "transformed"
    /\ UNCHANGED <<tcConditions, tcMapping, tcAgain, runVars, cfVars>>

TransformAgain ==
    /\ tcPc = "transformed"
    /\ tcAgain' = TransformConditions(tcOut, IdentityMapping(ReferencedIds(tcOut)))
    /\ tcPc' = "again"
    /\ UNCHANGED <<tcConditions, tcMapping, tcOut, runVars, cfVars>>

NextConditions == Transform \/ TransformAgain

SpecConditions == InitConditions /\ [][NextConditions]_vars

----------------------------------------------------------------------------
(* the payload of create_ticket_field alone *)

\* a source field attribute is null or holds a value
AttributeValues == {None, Str("v")}

SourceFields ==
    {[k \in {"id", "type", "title"} \cup DOMAIN attrs |->
        IF k = "id" THEN 1
        ELSE IF k = "type" THEN Str("text")
        ELSE IF k = "title" THEN Str("a") ELSE attrs[k]] :
     attrs \in UNION {[keys -> AttributeValues] :
                        keys \in {S \in SUBSET OptionalFieldKeys :
                                    Cardinality(S) <= MaxAttrs}}}

InitPayload ==
    /\ cfField \in SourceFields
    /\ cfPayload = None
    /\ cfPc = "start"
    /\ IdleRun
    /\ IdleConditions

BuildPayload ==
    /\ cfPc = "start"
    /\ cfPayload' = CleanFieldData(cfField)
    /\ cfPc' = "built"
    /\ UNCHANGED <<cfField, runVars, tcVars>>

NextPayload == BuildPayload

SpecPayload == InitPayload /\ [][NextPayload]_vars

----------------------------------------------------------------------------
(* Properties *)

Range(seq) == {seq[i] : i \in DOMAIN seq}

NineBuiltinKinds ==
    {Str("subject"), Str("description"), Str("status"), Str("priority"), Str("type"),
     Str("assignee"), Str("group"), Str("requester"), Str("collaborator")}

\* the target fields that carry the title of a source field
TitleMatches(source_field) ==
    {j \in DOMAIN tgtFields : tgtFields[j]["title"] = source_field["title"]}

\* C1: after build_field_mapping on a fresh migrator every source field of a
\* built-in kind is mapped to its own id, whatever its title and whatever the
\* target account holds.
C1_BuiltinMappedToItself ==
    pc = "mapping_built" =>
        \A i \in DOMAIN srcFields :
            srcFields[i]["type"] \in NineBuiltinKinds =>
                /\ srcFields[i]["id"] \in DOMAIN field_id_mapping
                /\ field_id_mapping[srcFields[i]["id"]] = srcFields[i]["id"]

\* a built-in field whose title a target field carries has kept its own id
C1_Witness ==
    /\ pc = "mapping_built"
    /\ \E i \in DOMAIN srcFields :
           /\ srcFields[i]["type"] \in NineBuiltinKinds
           /\ TitleMatches(srcFields[i]) # {}
           /\ field_id_mapping[srcFields[i]["id"]] = srcFields[i]["id"]

\* C2: after build_field_mapping on a fresh migrator a source field of no
\* built-in kind whose title exactly one target field carries is mapped to that
\* field's id, and one whose title no target field carries has no entry.
C2_CustomMappedByTitle ==
    pc = "mapping_built" =>
        \A i \in DOMAIN srcFields :
            srcFields[i]["type"] \notin NineBuiltinKinds =>
                /\ Cardinality(TitleMatches(srcFields[i])) = 1 =>
                       /\ srcFields[i]["id"] \in DOMAIN field_id_mapping
                       /\ \E j \in TitleMatches(srcFields[i]) :
                              field_id_mapping[srcFields[i]["id"]] = tgtFields[j]["id"]
                /\ TitleMatches(srcFields[i]) = {} =>
                       srcFields[i]["id"] \notin DOMAIN field_id_mapping

\* one custom field was matched by title and another was left without entry
C2_Witness ==
    /\ pc = "mapping_built"
    /\ \E i, k \in DOMAIN srcFields :
           /\ srcFields[i]["type"] \notin NineBuiltinKinds
           /\ srcFields[k]["type"] \notin NineBuiltinKinds
           /\ Cardinality(TitleMatches(srcFields[i])) = 1
           /\ field_id_mapping[srcFields[i]["id"]] = 101
           /\ TitleMatches(srcFields[k]) = {}
           /\ srcFields[k]["id"] \notin DOMAIN field_id_mapping

\* the ids of a list that have an entry, each replaced by its entry
Translated(ids, mapping) ==
    LET IsMapped(id) == id \in DOMAIN mapping
        mapped == SelectSeq(ids, IsMapped)
    IN  [i \in DOMAIN mapped |-> mapping[mapped[i]]]

\* the ids of a list that have no entry
Untranslated(ids, mapping) ==
    LET IsUnmapped(id) == id \notin DOMAIN mapping
    IN  SelectSeq(ids, IsUnmapped)

FormPosts == {i \in DOMAIN posts : posts[i].resource = "ticket_forms"}

SourceIds == Get(source_form, "ticket_field_ids", <<>>)

\* C3: the ticket_field_ids of the create-form payload are the mapping values
\* of the mapped ids of the source list, in the source order; the unmapped ids
\* make the missing list, which is logged and not raised, and the request is
\* sent whether or not that list is empty.
C3_FormFieldIdsTranslated ==
    /\ \A i \in FormPosts :
           /\ posts[i].payload["ticket_field_ids"] =
                  Translated(SourceIds, field_id_mapping)
           /\ Untranslated(SourceIds, field_id_mapping) # <<>> =>
                  [kind |-> "missing_fields",
                   ids |-> Untranslated(SourceIds, field_id_mapping)] \in warnings
           /\ Untranslated(SourceIds, field_id_mapping) = <<>> =>
                  \A w \in warnings : w.kind # "missing_fields"
           /\ posts[i].ok /\ pc = "done" => result.status = "success"
    /\ "create_ticket_form" \in Range(stages) => FormPosts # {}

\* a form was created from a list with a mapped, a built-in and a missing id
C3_Witness ==
    /\ pc = "done"
    /\ result.status = "success"
    /\ \E i \in FormPosts :
           /\ posts[i].ok
           /\ posts[i].payload["ticket_field_ids"] = <<101>>
           /\ SourceIds = <<1, 4>>
    /\ [kind |-> "missing_fields", ids |-> <<4>>] \in warnings

\* a second form whose fields are all resolved: [1, 2] becomes [101, 2]
C3_ScenarioWitness ==
    \E i \in FormPosts :
        /\ SourceIds = <<1, 2>>
        /\ posts[i].payload["ticket_field_ids"] = <<101, 2>>

\* C4: transform_conditions is defined on every condition list; it replaces
\* parent_field_id and every child id by the mapping value when there is one
\* and keeps the original id otherwise, and changes no other attribute of a
\* child reference.
C4_ConditionsPassThrough ==
    /\ tcPc = "start" => ENABLED Transform
    /\ tcPc \in {"transformed", "again"} =>
        /\ Len(tcOut) = Len(tcConditions)
        /\ \A i \in DOMAIN tcConditions :
            LET c == tcConditions[i]
                o == tcOut[i]
            IN  /\ Has(o, "parent_field_id") <=> Has(c, "parent_field_id")
                /\ Has(c, "parent_field_id") =>
                       o["parent_field_id"] =
                           IF c["parent_field_id"] \in DOMAIN tcMapping
                               THEN tcMapping[c["parent_field_id"]]
                               ELSE c["parent_field_id"]
                /\ Has(c, "child_fields") /\ c["child_fields"] # <<>> =>
                       /\ Has(o, "child_fields")
                       /\ Len(o["child_fields"]) = Len(c["child_fields"])
                       /\ \A n \in DOMAIN c["child_fields"] :
                              LET cc == c["child_fields"][n]
                                  oc == o["child_fields"][n]
                              IN  /\ DOMAIN oc = DOMAIN cc
                                  /\ \A k \in DOMAIN cc :
                                         oc[k] = IF k = "id" /\ cc[k] \in DOMAIN tcMapping
                                                     THEN tcMapping[cc[k]]
                                                     ELSE cc[k]

\* parent 5 has no entry and is kept, child 6 becomes 106
C4_Witness ==
    /\ tcPc = "transformed"
    /\ tcMapping = (6 :> 106)
    /\ \E i \in DOMAIN tcConditions :
           /\ Has(tcConditions[i], "parent_field_id")
           /\ tcConditions[i]["parent_field_id"] = 5
           /\ tcOut[i]["parent_field_id"] = 5
           /\ Has(tcConditions[i], "child_fields")
           /\ tcConditions[i]["child_fields"] =
                  <<[id |-> 6, is_required |-> Str("True")]>>
           /\ tcOut[i]["child_fields"] = <<[id |-> 106, is_required |-> Str("True")]>>

FieldPosts == {i \in DOMAIN posts : posts[i].resource = "ticket_fields"}

\* C5: whenever the create request of a lookup field on zen:custom_object:<key>
\* is sent to the target account, the target account holds a custom object
\* type of that key.
C5_ObjectExistsBeforeField ==
    \A i \in FieldPosts :
        DependsOnCustomObject(posts[i].payload) =>
            CustomObjectKey(posts[i].payload["relationship_target_type"])
                \in posts[i].objects

\* the ids of the source account's fields
DefinedIds == {srcFields[i]["id"] : i \in DOMAIN srcFields}

\* the successful attempts for one source field
Successes(id) == {k \in DOMAIN attempts : attempts[k].source_id = id /\ attempts[k].ok}

Last(S) == CHOOSE k \in S : \A j \in S : j <= k

\* C6: migrate_missing_fields attempts one creation for every id of the form's
\* ticket_field_ids that has no entry after build_field_mapping and that the
\* source account defines; a failed creation does not stop the attempts for the
\* remaining fields; after the batch a missing field has an entry exactly when
\* its creation succeeded, and the entry is the id of the created field.
C6_MissingFieldsBatch ==
    /\ pc \in {"creating", "fields_migrated"} /\ attempts = <<>> =>
           LET IsMissing(id) == id \notin DOMAIN field_id_mapping /\ id \in DefinedIds
           IN  [n \in DOMAIN missing_fields |-> missing_fields[n]["id"]]
                   = SelectSeq(SourceIds, IsMissing)
    /\ pc = "creating" => Len(attempts) = cursor - 1 /\ cursor <= Len(missing_fields)
    /\ pc = "fields_migrated" => Len(attempts) = Len(missing_fields)
    /\ pc \in {"creating", "fields_migrated"} =>
           \A n \in DOMAIN attempts : attempts[n].source_id = missing_fields[n]["id"]
    /\ pc = "fields_migrated" =>
           \A n \in DOMAIN missing_fields :
               LET id == missing_fields[n]["id"]
               IN  /\ id \in DOMAIN field_id_mapping <=> Successes(id) # {}
                   /\ Successes(id) # {} =>
                          /\ field_id_mapping[id] = attempts[Last(Successes(id))].new_id
                          /\ \E j \in DOMAIN tgtFields :
                                 /\ tgtFields[j]["id"] = field_id_mapping[id]
                                 /\ tgtFields[j]["title"] = missing_fields[n]["title"]

\* the first creation failed, the second was attempted and succeeded
C6_Witness ==
    /\ pc = "fields_migrated"
    /\ Len(attempts) = 2
    /\ ~attempts[1].ok
    /\ attempts[2].ok
    /\ attempts[1].source_id \notin DOMAIN field_id_mapping
    /\ attempts[2].source_id \in DOMAIN field_id_mapping

StageOrder ==
    <<"get_ticket_form", "build_field_mapping", "migrate_missing_fields",
      "create_ticket_form", "verify_conditions">>

\* C7: migrate_form always returns: the run is in one of its stages or has
\* returned a result, a failure of a stage ends the run in a result of status
\* 'error' with the error description and the identifier mapping as it stands,
\* and no stage after the failing one is entered.
C7_FailureResult ==
    /\ pc = "done" <=> result # None
    /\ pc \in {"start", "form_read", "mapping_built", "creating", "fields_migrated",
               "form_created", "done"}
    /\ stages = SubSeq(StageOrder, 1, Len(stages))
    /\ result # None /\ result.status = "error" =>
           /\ DOMAIN result = {"status", "error", "field_mappings"}
           /\ result.field_mappings = field_id_mapping
           /\ new_form = None
           /\ "verify_conditions" \notin Range(stages)
           /\ result.error = "GET source ticket_forms" =>
                  /\ stages = SubSeq(StageOrder, 1, 1)
                  /\ source_form = None
                  /\ field_id_mapping = <<>>
           /\ result.error = "GET target ticket_fields" =>
                  /\ stages = SubSeq(StageOrder, 1, 2)
                  /\ field_id_mapping = <<>>
           /\ result.error = "GET source ticket_fields" =>
                  /\ Len(stages) \in {2, 3}
                  /\ Len(stages) = 2 => field_id_mapping = <<>>
           /\ result.error # "POST target ticket_forms" =>
                  /\ posts = <<>>
                  /\ attempts = <<>>
           /\ result.error = "POST target ticket_forms" =>
                  /\ stages = SubSeq(StageOrder, 1, 4)
                  /\ FormPosts = {Len(posts)}
                  /\ ~posts[Len(posts)].ok

\* the creation of the form failed after a missing field was created: the
\* error result carries the entry of that field
C7_Witness ==
    /\ pc = "done"
    /\ result.status = "error"
    /\ result.error = "POST target ticket_forms"
    /\ \E n \in DOMAIN attempts :
           /\ attempts[n].ok
           /\ attempts[n].source_id \in DOMAIN result.field_mappings
           /\ result.field_mappings[attempts[n].source_id] = attempts[n].new_id

OriginalTotal ==
    Len(Get(source_form, "end_user_conditions", <<>>))
        + Len(Get(source_form, "agent_conditions", <<>>))

MigratedTotal ==
    Len(Get(new_form, "end_user_conditions", <<>>))
        + Len(Get(new_form, "agent_conditions", <<>>))

\* C8: once the create request of the form has succeeded, migrate_form returns
\* a result of status 'success' whatever condition lists the created form
\* reports: different totals are logged as a discrepancy warning, equal totals
\* are not.
C8_DiscrepancyIsWarning ==
    (\E i \in FormPosts : posts[i].ok) =>
        /\ pc \in {"form_created", "done"}
        /\ pc = "form_created" => ENABLED VerifyConditions
        /\ pc = "done" =>
               /\ result.status = "success"
               /\ result.migrated_form = new_form
               /\ result.conditions_original.total = OriginalTotal
               /\ result.conditions_migrated.total = MigratedTotal
               /\ OriginalTotal # MigratedTotal <=>
                      \E w \in warnings : w.kind = "discrepancy"

\* two conditions were sent, the created form reports one: success with warning
C8_Witness ==
    /\ pc = "done"
    /\ result.status = "success"
    /\ OriginalTotal = 2
    /\ MigratedTotal = 1
    /\ [kind |-> "discrepancy", ids |-> <<2, 1>>] \in warnings

\* C9: transforming an already transformed condition list under the identity
\* mapping of the ids it refers to returns the same list.
C9_TransformIdempotent ==
    tcPc = "again" => tcAgain = tcOut

\* a list with a translated child reference was transformed a second time
C9_Witness ==
    /\ tcPc = "again"
    /\ tcOut # tcConditions
    /\ \E i \in DOMAIN tcOut :
           /\ Has(tcOut[i], "child_fields")
           /\ Has(tcOut[i], "note")
           /\ tcOut[i]["child_fields"][1]["id"] = 106
    /\ tcAgain = tcOut

AllFieldKeys ==
    {"type", "title", "description", "position", "active", "required",
     "collapsed_for_agents", "regexp_for_validation", "title_in_portal",
     "visible_in_portal", "editable_in_portal", "required_in_portal", "tag",
     "custom_field_options", "sub_type_id", "removable", "relationship_target_type"}

\* the value a missing attribute is sent with, for the attributes that have one
SentWhenMissing ==
    [description |-> Str(""), position |-> Str("0"), active |-> Str("True"),
     required |-> Str("False"), collapsed_for_agents |-> Str("False"),
     visible_in_portal |-> Str("True"), editable_in_portal |-> Str("True"),
     required_in_portal |-> Str("False"), custom_field_options |-> Str("[]"),
     removable |-> Str("True")]

\* the source field holds the attribute with a value that is not null
Present(k) == Has(cfField, k) /\ cfField[k] # None

\* C10 as stated: the payload holds type, title and exactly the optional
\* attributes present on the source field, none of them null.
C10_OnlyPresentAttributes ==
    cfPc = "built" =>
        /\ DOMAIN cfPayload = {"type", "title"} \cup {k \in AllFieldKeys : Present(k)}
        /\ \A k \in DOMAIN cfPayload : cfPayload[k] # None

\* C10 as amended: the payload holds type, title, every optional attribute the
\* source field holds with a value that is not null, and for an attribute the
\* source field does not hold its default when it has one; an attribute that
\* is null, or missing without default, is omitted, and no value sent is null.
C10_PresentOrDefaulted ==
    cfPc = "built" =>
        /\ DOMAIN cfPayload \subseteq AllFieldKeys
        /\ \A k \in AllFieldKeys :
               /\ k \in DOMAIN cfPayload <=>
                      \/ Present(k)
                      \/ ~Has(cfField, k) /\ k \in DOMAIN SentWhenMissing
               /\ k \in DOMAIN cfPayload =>
                      /\ cfPayload[k] # None
                      /\ cfPayload[k] = IF Has(cfField, k) THEN cfField[k]
                                                           ELSE SentWhenMissing[k]

\* a null tag is omitted, a missing position is sent as 0, a held description
\* is sent as it is
C10_Witness ==
    /\ cfPc = "built"
    /\ Has(cfField, "tag")
    /\ cfField["tag"] = None
    /\ ~Has(cfPayload, "tag")
    /\ ~Has(cfField, "position")
    /\ cfPayload["position"] = Str("0")
    /\ Present("description")
    /\ cfPayload["description"] = cfField["description"]

\* the custom source fields whose title several target fields carry
SharedTitleFields ==
    {i \in DOMAIN srcFields :
        /\ srcFields[i]["type"] \notin NineBuiltinKinds
        /\ Cardinality(TitleMatches(srcFields[i])) >= 2}

\* C11 as stated: a custom source field whose title several target fields
\* carry is mapped to the id of the first of them in the order of the target
\* field list.
C11_FirstOccurrenceWins ==
    pc = "mapping_built" =>
        \A i \in SharedTitleFields :
            /\ srcFields[i]["id"] \in DOMAIN field_id_mapping
            /\ \E j \in TitleMatches(srcFields[i]) :
                   /\ \A k \in TitleMatches(srcFields[i]) : j <= k
                   /\ field_id_mapping[srcFields[i]["id"]] = tgtFields[j]["id"]

\* C11 as amended: such a field is mapped to the id of the last of the target
\* fields of its title in the order of the target field list.
C11_LastOccurrenceWins ==
    pc = "mapping_built" =>
        \A i \in SharedTitleFields :
            /\ srcFields[i]["id"] \in DOMAIN field_id_mapping
            /\ \E j \in TitleMatches(srcFields[i]) :
                   /\ \A k \in TitleMatches(srcFields[i]) : k <= j
                   /\ field_id_mapping[srcFields[i]["id"]] = tgtFields[j]["id"]

\* target fields 101 and 102 share a title and the source field is mapped to 102
C11_Witness ==
    /\ pc = "mapping_built"
    /\ \E i \in SharedTitleFields :
           /\ TitleMatches(srcFields[i]) = {1, 2}
           /\ tgtFields[2]["id"] = 102
           /\ field_id_mapping[srcFields[i]["id"]] = 102

ConditionAttributes ==
    {"parent_field_id", "parent_field_type", "value", "operator", "child_fields"}

\* C12: transform_conditions copies verbatim every condition attribute outside
\* the known set and every child attribute other than id; an empty (or absent)
\* input list yields the empty list, and a condition without child_fields
\* yields a condition without child_fields.
C12_UnknownAttributesKept ==
    tcPc \in {"transformed", "again"} =>
        /\ tcConditions = <<>> => tcOut = <<>>
        /\ Len(tcOut) = Len(tcConditions)
        /\ \A i \in DOMAIN tcConditions :
            LET c == tcConditions[i]
                o == tcOut[i]
            IN  /\ DOMAIN o \ ConditionAttributes = DOMAIN c \ ConditionAttributes
                /\ \A k \in DOMAIN c \ ConditionAttributes : o[k] = c[k]
                /\ ~Has(c, "child_fields") => ~Has(o, "child_fields")
                /\ Has(o, "child_fields") =>
                       /\ Has(c, "child_fields")
                       /\ Len(o["child_fields"]) = Len(c["child_fields"])
                       /\ \A n \in DOMAIN c["child_fields"] :
                              /\ DOMAIN o["child_fields"][n] \ {"id"}
                                     = DOMAIN c["child_fields"][n] \ {"id"}
                              /\ \A k \in DOMAIN c["child_fields"][n] \ {"id"} :
                                     o["child_fields"][n][k] = c["child_fields"][n][k]

\* one condition carries an attribute the code does not know and a child with
\* a display attribute, another has no child_fields; all are found in the output
C12_Witness ==
    /\ tcPc = "transformed"
    /\ \E i, j \in DOMAIN tcConditions :
           /\ Has(tcConditions[i], "note")
           /\ tcOut[i]["note"] = Str("n")
           /\ Has(tcOut[i], "child_fields")
           /\ tcOut[i]["child_fields"][1]["is_required"] = Str("True")
           /\ ~Has(tcConditions[j], "child_fields")
           /\ ~Has(tcOut[j], "child_fields")

\* the empty list was transformed into the empty list
C12_EmptyWitness ==
    /\ tcPc = "transformed"
    /\ tcConditions = <<>>
    /\ tcOut = <<>>

\* C13: in every step of a migrate_form run each source id that has an entry
\* in the mapping keeps an entry, outside the creation loop the entry keeps its
\* target id too, and the mapping of the returned result is the accumulated
\* mapping: it has an entry for every id that had one before the return and
\* for every field created during the run; a returned result is not changed.
C13_MappingGrows ==
    [][/\ DOMAIN field_id_mapping \subseteq DOMAIN field_id_mapping'
       /\ pc # "creating" =>
              \A id \in DOMAIN field_id_mapping :
                  field_id_mapping'[id] = field_id_mapping[id]
       /\ result' # None =>
              /\ result'.field_mappings = field_id_mapping'
              /\ DOMAIN field_id_mapping \subseteq DOMAIN result'.field_mappings
              /\ \A n \in DOMAIN attempts' :
                     attempts'[n].ok =>
                         attempts'[n].source_id \in DOMAIN result'.field_mappings
       /\ result # None => result' = result]_vars

\* a run has returned a mapping that holds an entry written by
\* build_field_mapping and an entry written by migrate_missing_fields
C13_Witness ==
    /\ pc = "done"
    /\ result # None
    /\ \E built, created \in DOMAIN result.field_mappings :
           /\ Successes(built) = {}
           /\ Successes(created) # {}
           /\ result.field_mappings[created] = attempts[Last(Successes(created))].new_id

\* C14: within one migrate_form run at most one target field is created for
\* each source field, whatever the form's ticket_field_ids hold, so that every
\* created target field is the one the mapping entry of its source field
\* points to (no entry is overwritten, no created field is left unmapped).
C14_AtMostOneCreation ==
    /\ \A id \in DefinedIds : Cardinality(Successes(id)) <= 1
    /\ \A n \in DOMAIN attempts :
           attempts[n].ok =>
               /\ attempts[n].source_id \in DOMAIN field_id_mapping
               /\ field_id_mapping[attempts[n].source_id] = attempts[n].new_id

====
